---- MODULE Spec2Model ----
(***************************************************************************)
(* Model of scripts/syntax_utils.py: the two-pass token normaliser, the    *)
(* greedy windowed AOI-to-annotation aligner and the sentence-local        *)
(* dependency metrics (dep_distance, dep_depth).                           *)
(*                                                                         *)
(* A string is a sequence of one-character strings.  Positions (i, j, k,   *)
(* mapping entries, token indices, span bounds) keep Python's 0-based      *)
(* values; the element at position p of a sequence s is s[p + 1].          *)
(* Python's None in the mapping is the value None (-1), which is no        *)
(* position.                                                               *)
(***************************************************************************)
EXTENDS Integers, Sequences, FiniteSets, TLC

VARIABLES call, pc,
          aoi_tokens, doc_tokens, max_window, mapping, i, j, k, w,
          heads, sents, token, current, depth, result

vars == <<call, pc, aoi_tokens, doc_tokens, max_window, mapping, i, j, k, w,
          heads, sents, token, current, depth, result>>

alignVars == <<aoi_tokens, doc_tokens, max_window, mapping, i, j, k, w>>
docVars == <<heads, sents, token>>
depVars == <<heads, sents, token, current, depth, result>>

\* ------------------------------------------------------------------ bounds

\* Longest AOI token list of the freely chosen alignment inputs.
MaxAoi == 2
\* Longest annotation token list of the freely chosen alignment inputs.
MaxDoc == 2
\* Longest annotation token list of the inputs built as finer splits.
MaxSplitDoc == 3
\* Largest max_window argument.
MaxWindow == 2
\* Most tokens in a document with arbitrary head pointers.
MaxTokens == 3
\* Tokens of the single-sentence document whose heads form one chain.
MaxChain == 52

\* `if depth > 50` in dep_depth.
DepthCap == 50

\* None, the mapping entry of an unmatched AOI token: no position.
None == -1

\* ------------------------------------------------------------ normaliser

\* str.lower() on the characters of the alphabet.
Lower(c) == IF c = "A" THEN "a" ELSE IF c = "B" THEN "b" ELSE c

LowerStr(s) == [x \in 1..Len(s) |-> Lower(s[x])]

\* \w of the pass-1 pattern: letters, digits, underscore.
IsWordChar(c) == c \in {"a", "b", "A", "B", "0", "_"}

\* A character the pass-1 pattern [^\w'\-]+ leaves in place.
KeepPass1(c) == IsWordChar(c) \/ c \in {"'", "-"}

\* A character the pass-2 pattern ['\-] leaves in place.
KeepPass2(c) == c \notin {"'", "-"}

normalize_token_pass1(s) == SelectSeq(LowerStr(s), KeepPass1)

normalize_token_pass2(s) == SelectSeq(normalize_token_pass1(s), KeepPass2)

IsSpace(c) == c \in {" "}

RECURSIVE lstrip(_)
lstrip(s) == IF s # <<>> /\ IsSpace(Head(s)) THEN lstrip(Tail(s)) ELSE s

RECURSIVE rstrip(_)
rstrip(s) ==
    IF s # <<>> /\ IsSpace(s[Len(s)]) THEN rstrip(SubSeq(s, 1, Len(s) - 1)) ELSE s

\* str.strip()
strip(s) == rstrip(lstrip(s))

\* "".join(normalize_token_pass1(t) for t in toks)
RECURSIVE JoinPass1(_)
JoinPass1(toks) ==
    IF toks = <<>> THEN <<>>
    ELSE normalize_token_pass1(Head(toks)) \o JoinPass1(Tail(toks))

\* "".join(normalize_token_pass2(t) for t in toks)
RECURSIVE JoinPass2(_)
JoinPass2(toks) ==
    IF toks = <<>> THEN <<>>
    ELSE normalize_token_pass2(Head(toks)) \o JoinPass2(Tail(toks))

\* --------------------------------------------------------------- aligner

N == Len(doc_tokens)

aoi_tok == aoi_tokens[i + 1]
raw == strip(aoi_tok)
tgt_pass1 == normalize_token_pass1(aoi_tok)
tgt_pass2 == normalize_token_pass2(aoi_tok)

\* doc_tokens[lo:lo + width]
Window(lo, width) == SubSeq(doc_tokens, lo + 1, lo + width)

window_norm_pass1 == JoinPass1(Window(k, w))
window_norm_pass2 == JoinPass2(Window(k, w))

\* A list one entry longer than the AOI list.
NewMappingLong(n) == [x \in 1..(n + 1) |-> None]

\* mapping = [None] * len(aoi_tokens)
NewMapping(n) == [x \in 1..n |-> None]

\* range(1, max_window): the widest window is left out.
WidthInRangeShort(width) == width < max_window

\* for w in range(1, max_window + 1): the loop body runs for this w.
WidthInRange(width) == width <= max_window

\* j = k: the cursor stays on the start of the matched window.
CursorAfterMatchStale(lo, width) == lo

\* j = k + w
CursorAfterMatch(lo, width) == lo + width

\* k is left where it is.
NextStartStuck(lo) == lo

\* k += 1
NextStart(lo) == lo + 1

Min(a, b) == IF a <= b THEN a ELSE b

\* The for loop over aoi_tokens is exhausted: return mapping.
Return ==
    /\ call = "align" /\ pc = "for"
    /\ i = Len(aoi_tokens)
    /\ pc' = "done"
    /\ UNCHANGED <<call, alignVars, depVars>>

\* if tgt_pass1 == "" and raw: enter the literal scan.
BeginPunct ==
    /\ call = "align" /\ pc = "for"
    /\ i < Len(aoi_tokens)
    /\ tgt_pass1 = <<>> /\ raw # <<>>
    /\ pc' = "punct"
    /\ UNCHANGED <<call, alignVars, depVars>>

\* while j < N and doc_tokens[j].strip() != raw: j += 1
PunctScan ==
    /\ call = "align" /\ pc = "punct"
    /\ j < N /\ strip(doc_tokens[j + 1]) # raw
    /\ j' = j + 1
    /\ UNCHANGED <<call, pc, aoi_tokens, doc_tokens, max_window, mapping, i, k, w, depVars>>

\* if j < N and doc_tokens[j].strip() == raw: mapping[i] = j; j += 1; continue
PunctMatch ==
    /\ call = "align" /\ pc = "punct"
    /\ j < N /\ strip(doc_tokens[j + 1]) = raw
    /\ mapping' = [mapping EXCEPT ![i + 1] = j]
    /\ j' = j + 1
    /\ i' = i + 1
    /\ pc' = "for"
    /\ UNCHANGED <<call, aoi_tokens, doc_tokens, max_window, k, w, depVars>>

\* The scan ran off the end of doc_tokens: continue with the next AOI token.
PunctMiss ==
    /\ call = "align" /\ pc = "punct"
    /\ ~(j < N)
    /\ i' = i + 1
    /\ pc' = "for"
    /\ UNCHANGED <<call, aoi_tokens, doc_tokens, max_window, mapping, j, k, w, depVars>>

\* if tgt_pass1 == "": continue
SkipEmpty ==
    /\ call = "align" /\ pc = "for"
    /\ i < Len(aoi_tokens)
    /\ tgt_pass1 = <<>> /\ raw = <<>>
    /\ i' = i + 1
    /\ UNCHANGED <<call, pc, aoi_tokens, doc_tokens, max_window, mapping, j, k, w, depVars>>

\* matched = False; k = j; the first pass of the while loop starts at w = 1.
BeginWindow ==
    /\ call = "align" /\ pc = "for"
    /\ i < Len(aoi_tokens)
    /\ tgt_pass1 # <<>>
    /\ k' = j
    /\ w' = 1
    /\ pc' = "window"
    /\ UNCHANGED <<call, aoi_tokens, doc_tokens, max_window, mapping, i, j, depVars>>

\* The body of the for loop over w is entered for the current k and w.
InWindowBody ==
    /\ call = "align" /\ pc = "window"
    /\ k < N
    /\ WidthInRange(w)
    /\ ~(k + w > N)

\* if window_norm_pass1 == tgt_pass1: mapping[i] = k; j = k + w; matched
MatchPass1 ==
    /\ InWindowBody
    /\ window_norm_pass1 = tgt_pass1
    /\ mapping' = [mapping EXCEPT ![i + 1] = k]
    /\ j' = CursorAfterMatch(k, w)
    /\ i' = i + 1
    /\ pc' = "for"
    /\ UNCHANGED <<call, aoi_tokens, doc_tokens, max_window, k, w, depVars>>

\* if window_norm_pass2 == tgt_pass2: mapping[i] = k; j = k + w; matched
MatchPass2 ==
    /\ InWindowBody
    /\ window_norm_pass1 # tgt_pass1
    /\ window_norm_pass2 = tgt_pass2
    /\ mapping' = [mapping EXCEPT ![i + 1] = k]
    /\ j' = CursorAfterMatch(k, w)
    /\ i' = i + 1
    /\ pc' = "for"
    /\ UNCHANGED <<call, aoi_tokens, doc_tokens, max_window, k, w, depVars>>

\* Neither pass matched at this width: the for loop takes the next w.
NextWidth ==
    /\ InWindowBody
    /\ window_norm_pass1 # tgt_pass1
    /\ window_norm_pass2 # tgt_pass2
    /\ w' = w + 1
    /\ UNCHANGED <<call, pc, aoi_tokens, doc_tokens, max_window, mapping, i, j, k, depVars>>

\* The for loop over w ended (range exhausted or k + w > N) unmatched: k += 1.
AdvanceK ==
    /\ call = "align" /\ pc = "window"
    /\ k < N
    /\ ~WidthInRange(w) \/ k + w > N
    /\ k' = NextStart(k)
    /\ w' = 1
    /\ UNCHANGED <<call, pc, aoi_tokens, doc_tokens, max_window, mapping, i, j, depVars>>

\* while k < N ended unmatched: j = min(j + 1, N)
NoMatch ==
    /\ call = "align" /\ pc = "window"
    /\ ~(k < N)
    /\ j' = Min(j + 1, N)
    /\ i' = i + 1
    /\ pc' = "for"
    /\ UNCHANGED <<call, aoi_tokens, doc_tokens, max_window, mapping, k, w, depVars>>

\* ----------------------------------------------------- dependency metrics

\* token.head.i of the token at position t
HeadOf(t) == heads[t + 1]

\* sent.start <= idx < sent.end
Contains(sent, idx) == sent[1] <= idx /\ idx < sent[2]

\* token_sent = None: no span was found.
NoSent == <<>>

\* for sent in doc.sents: if sent.start <= idx < sent.end: found = sent
\* (no break: the last span containing idx is the one kept).
RECURSIVE LastSentWith(_, _)
LastSentWith(ss, idx) ==
    IF ss = <<>> THEN NoSent
    ELSE IF Contains(ss[Len(ss)], idx) THEN ss[Len(ss)]
    ELSE LastSentWith(SubSeq(ss, 1, Len(ss) - 1), idx)

\* for sent in doc.sents: if sent.start <= idx < sent.end: found = sent; break
RECURSIVE FirstSentWith(_, _)
FirstSentWith(ss, idx) ==
    IF ss = <<>> THEN NoSent
    ELSE IF Contains(Head(ss), idx) THEN Head(ss)
    ELSE FirstSentWith(Tail(ss), idx)

\* abs()
Abs(x) == IF x < 0 THEN -x ELSE x

\* token.i - token.head.i without abs().
dep_distance_signed(t) ==
    IF HeadOf(t) = t THEN 0
    ELSE IF LastSentWith(sents, t) # LastSentWith(sents, HeadOf(t)) THEN 0
    ELSE t - HeadOf(t)

\* The value dep_distance returns for the token at position t.
dep_distance(t) ==
    IF HeadOf(t) = t THEN 0
    ELSE IF LastSentWith(sents, t) # LastSentWith(sents, HeadOf(t)) THEN 0
    ELSE Abs(t - HeadOf(t))

\* The whole of dep_distance: it has no loop over the head relation.
DepDistance ==
    /\ call = "dep_distance" /\ pc = "call"
    /\ result' = dep_distance(token)
    /\ pc' = "done"
    /\ UNCHANGED <<call, alignVars, docVars, current, depth>>

\* token_sent of dep_depth, found once before the walk.
token_sent == FirstSentWith(sents, token)

\* depth = 0; current = token
DepthBegin ==
    /\ call = "dep_depth" /\ pc = "call"
    /\ depth' = 0
    /\ current' = token
    /\ pc' = "walk"
    /\ UNCHANGED <<call, alignVars, docVars, result>>

\* while current.head != current fails: return depth
DepthAtRoot ==
    /\ call = "dep_depth" /\ pc = "walk"
    /\ HeadOf(current) = current
    /\ result' = depth
    /\ pc' = "done"
    /\ UNCHANGED <<call, alignVars, docVars, current, depth>>

\* One pass of the while loop has run depth += 1; current = current.head.
Stepped ==
    /\ call = "dep_depth" /\ pc = "walk"
    /\ HeadOf(current) # current
    /\ depth' = depth + 1
    /\ current' = HeadOf(current)

\* The new current is outside token_sent: break, return depth.
DepthStepOutside ==
    /\ Stepped
    /\ token_sent # NoSent /\ ~Contains(token_sent, current')
    /\ result' = depth'
    /\ pc' = "done"
    /\ UNCHANGED <<call, alignVars, docVars>>

\* if depth > 50: break, return depth.
DepthStepCapped ==
    /\ Stepped
    /\ ~(token_sent # NoSent /\ ~Contains(token_sent, current'))
    /\ depth' > DepthCap
    /\ result' = depth'
    /\ pc' = "done"
    /\ UNCHANGED <<call, alignVars, docVars>>

\* Neither break is taken: the while condition is tested again.
DepthStepOn ==
    /\ Stepped
    /\ ~(token_sent # NoSent /\ ~Contains(token_sent, current'))
    /\ ~(depth' > DepthCap)
    /\ UNCHANGED <<call, pc, alignVars, docVars, result>>

\* ----------------------------------------------------------------- inputs

SeqsUpTo(S, n) == UNION {[1..m -> S] : m \in 0..n}

\* AOI tokens of the freely chosen inputs: whitespace only, punctuation only,
\* a word in either case, a hyphen alone, a word with a hyphen, a two-letter word.
AoiToks ==
    {<<" ">>, <<".">>, <<"a">>, <<"A">>, <<"-">>, <<"a", "-">>, <<"a", "a">>}

\* Annotation tokens of the freely chosen inputs: two words, a hyphen, punctuation.
DocToks == {<<"a">>, <<"b">>, <<"-">>, <<".">>}

\* Annotation tokens of the finer splits: the same, and a whitespace token.
SplitToks == DocToks \cup {<<" ">>}

\* The tokens of the inputs whose termination is checked: one AOI token for each
\* branch of the loop body, and annotation tokens that match and that do not.
CoreAoiToks == {<<" ">>, <<".">>, <<"a">>, <<"-">>}
CoreDocToks == {<<"a">>, <<"b">>, <<".">>}

\* The half-open ranges [start, end) that the cut points make of [from, n).
RECURSIVE SpansFrom(_, _, _)
SpansFrom(from, cuts, n) ==
    IF from >= n THEN <<>>
    ELSE LET later == {c \in cuts : c > from}
             nxt == IF later = {} THEN n
                    ELSE CHOOSE c \in later : \A d \in later : c <= d
         IN  <<<<from, nxt>>>> \o SpansFrom(nxt, cuts, n)

RECURSIVE Flatten(_)
Flatten(toks) == IF toks = <<>> THEN <<>> ELSE Head(toks) \o Flatten(Tail(toks))

AlignStart(aoi, doc, mw) ==
    /\ call = "align" /\ pc = "for"
    /\ aoi_tokens = aoi /\ doc_tokens = doc /\ max_window = mw
    /\ mapping = NewMapping(Len(aoi))
    /\ i = 0 /\ j = 0 /\ k = 0 /\ w = 0
    /\ heads = <<>> /\ sents = <<>> /\ token = 0
    /\ current = 0 /\ depth = 0 /\ result = 0

\* Any AOI list over A against any annotation list over D.
InitAlignOver(A, D) ==
    \E aoi \in SeqsUpTo(A, MaxAoi), doc \in SeqsUpTo(D, MaxDoc), mw \in 0..MaxWindow :
        AlignStart(aoi, doc, mw)

InitAlignFree == InitAlignOver(AoiToks, DocToks)

InitAlignCore == InitAlignOver(CoreAoiToks, CoreDocToks)

\* The annotation list is a finer split of the AOI list: each AOI token is the
\* text of one group of at most max_window adjacent annotation tokens.
InitAlignSplit ==
    \E doc \in SeqsUpTo(SplitToks, MaxSplitDoc), mw \in 1..MaxWindow :
      \E cuts \in SUBSET (1..(Len(doc) - 1)) :
        LET groups == SpansFrom(0, cuts, Len(doc))
        IN  /\ \A g \in 1..Len(groups) : groups[g][2] - groups[g][1] <= mw
            /\ AlignStart([g \in 1..Len(groups) |->
                              Flatten(SubSeq(doc, groups[g][1] + 1, groups[g][2]))],
                          doc, mw)

DepStart(c, hs, ss, t) ==
    /\ call = c /\ pc = "call"
    /\ heads = hs /\ sents = ss /\ token = t
    /\ current = 0 /\ depth = 0 /\ result = 0
    /\ aoi_tokens = <<>> /\ doc_tokens = <<>> /\ max_window = 0
    /\ mapping = <<>> /\ i = 0 /\ j = 0 /\ k = 0 /\ w = 0

\* Any head assignment (trees, cross-sentence heads, cycles) over a document
\* whose sentence spans cover it contiguously.
InitDep ==
    \E n \in 1..MaxTokens, c \in {"dep_distance", "dep_depth"} :
      \E hs \in [1..n -> 0..(n - 1)], cuts \in SUBSET (1..(n - 1)), t \in 0..(n - 1) :
        DepStart(c, hs, SpansFrom(0, cuts, n), t)

\* One sentence whose heads form a single chain down to the root at position 0.
InitChain ==
    \E t \in 0..(MaxChain - 1) :
        DepStart("dep_depth", [x \in 1..MaxChain |-> IF x = 1 THEN 0 ELSE x - 2],
                 <<<<0, MaxChain>>>>, t)

Init == InitAlignFree \/ InitAlignSplit \/ InitDep \/ InitChain

Next ==
    \/ Return \/ BeginPunct \/ PunctScan \/ PunctMatch \/ PunctMiss
    \/ SkipEmpty \/ BeginWindow \/ MatchPass1 \/ MatchPass2 \/ NextWidth
    \/ AdvanceK \/ NoMatch
    \/ DepDistance \/ DepthBegin \/ DepthAtRoot
    \/ DepthStepOutside \/ DepthStepCapped \/ DepthStepOn

Spec == Init /\ [][Next]_vars

\* Every call runs to its end: a step that can be taken is taken.  Python runs
\* the one thread of a call until it returns.
LiveInit == InitAlignCore \/ InitDep \/ InitChain

LiveSpec == LiveInit /\ [][Next]_vars /\ WF_vars(Next)

\* ----------------------------------------------------------------- claims

AoiPositions == 0..(Len(aoi_tokens) - 1)

Matched(p) == mapping[p + 1] # None

StrictlyIncreasing(m) ==
    \A p, q \in DOMAIN m : (p < q /\ m[p] # None /\ m[q] # None) => m[p] < m[q]

\* The number of annotation tokens the match recorded by this step consumes:
\* the window width of a window match, one token for a punctuation match.
ClaimedWidth == IF pc = "window" THEN w ELSE 1

\* C1: the matched entries of the mapping are strictly increasing in AOI order
\* and no annotation position is claimed twice: the cursor never moves back,
\* every match claims a range that starts at or after the cursor and leaves
\* the cursor past the whole range.
C1_MonotoneNoReuse ==
    [][ /\ j' >= j
        /\ StrictlyIncreasing(mapping')
        /\ mapping' # mapping =>
              /\ mapping'[i + 1] >= j
              /\ j' >= mapping'[i + 1] + ClaimedWidth ]_vars

\* A two-token window match followed by a punctuation match.
C1_Witness ==
    /\ pc = "done"
    /\ aoi_tokens = <<<<"a", "a">>, <<".">>>>
    /\ doc_tokens = <<<<"a">>, <<"a">>, <<".">>>>
    /\ mapping = <<0, 2>>

\* aoi is doc regrouped: every AOI token is non-empty and is the text of the
\* next 1..mw annotation tokens, the groups covering doc.
RECURSIVE IsFinerSplit(_, _, _)
IsFinerSplit(aoi, doc, mw) ==
    IF aoi = <<>> THEN doc = <<>>
    ELSE \E g \in 1..Min(mw, Len(doc)) :
            /\ Head(aoi) # <<>>
            /\ Head(aoi) = Flatten(SubSeq(doc, 1, g))
            /\ IsFinerSplit(Tail(aoi), SubSeq(doc, g + 1, Len(doc)), mw)

\* The same, and every AOI token with an empty Pass-1 form has a non-empty
\* stripped text and is a single annotation token.
RECURSIVE IsPlainSplit(_, _, _)
IsPlainSplit(aoi, doc, mw) ==
    IF aoi = <<>> THEN doc = <<>>
    ELSE \E g \in 1..Min(mw, Len(doc)) :
            /\ Head(aoi) # <<>>
            /\ Head(aoi) = Flatten(SubSeq(doc, 1, g))
            /\ normalize_token_pass1(Head(aoi)) = <<>> =>
                  (g = 1 /\ strip(Head(aoi)) # <<>>)
            /\ IsPlainSplit(Tail(aoi), SubSeq(doc, g + 1, Len(doc)), mw)

AllMatched == \A p \in AoiPositions : Matched(p)

\* C2 as stated: when the annotation list is a finer split of the AOI list,
\* the returned mapping has no None entry.
C2_SplitAllMatched ==
    (call = "align" /\ pc = "done" /\ IsFinerSplit(aoi_tokens, doc_tokens, max_window))
        => AllMatched

\* C2 (amended): when the annotation list is a finer split of the AOI list and
\* every AOI token with an empty Pass-1 form has a non-empty stripped text and
\* is one annotation token, the returned mapping has no None entry.
C2_PlainSplitAllMatched ==
    (call = "align" /\ pc = "done" /\ IsPlainSplit(aoi_tokens, doc_tokens, max_window))
        => AllMatched

\* A split of three annotation tokens into two AOI tokens, the second of them
\* punctuation, all matched.
C2_Witness ==
    /\ call = "align" /\ pc = "done"
    /\ IsPlainSplit(aoi_tokens, doc_tokens, max_window)
    /\ Len(aoi_tokens) = 2 /\ Len(doc_tokens) = 3
    /\ normalize_token_pass1(aoi_tokens[2]) = <<>>
    /\ AllMatched

\* The step records a match of the window branch.
WindowMatchStep == call = "align" /\ pc = "window" /\ mapping' # mapping

\* C3: a match is never recorded by comparing an empty AOI form with an empty
\* window concatenation when the raw AOI text is non-empty.
C3_NoEmptyFormMatch ==
    [][ (WindowMatchStep /\ raw # <<>>) =>
            /\ ~(window_norm_pass1 = tgt_pass1 /\ tgt_pass1 = <<>>)
            /\ ~(window_norm_pass1 # tgt_pass1 /\ window_norm_pass2 = tgt_pass2
                    /\ tgt_pass2 = <<>>) ]_vars

DocPositions == 0..(Len(heads) - 1)

\* The token at position t reaches a self-headed root in at most fuel steps.
RECURSIVE ReachesRoot(_, _)
ReachesRoot(t, fuel) ==
    \/ HeadOf(t) = t
    \/ fuel > 0 /\ ReachesRoot(HeadOf(t), fuel - 1)

\* Heads form a tree per sentence, every head in its token's own sentence.
WellFormed ==
    /\ \A t \in DocPositions :
          /\ Contains(FirstSentWith(sents, t), HeadOf(t))
          /\ ReachesRoot(t, Len(heads))
    /\ \A s \in 1..Len(sents) :
          Cardinality({t \in DocPositions : Contains(sents[s], t) /\ HeadOf(t) = t}) = 1

\* C4: on a well-formed document dep_depth returns a value in 0..50.
C4_DepthWithinCap ==
    (call = "dep_depth" /\ pc = "done" /\ WellFormed) => result \in 0..DepthCap

\* The index of the one sentence span that holds position idx.
SpanIndex(idx) == CHOOSE s \in 1..Len(sents) : Contains(sents[s], idx)

RefDistance ==
    IF HeadOf(token) = token THEN 0
    ELSE IF SpanIndex(token) # SpanIndex(HeadOf(token)) THEN 0
    ELSE IF token >= HeadOf(token) THEN token - HeadOf(token)
    ELSE HeadOf(token) - token

\* C5: dep_distance is 0 for a root, 0 for a head in another sentence span,
\* and otherwise |token.i - token.head.i|; it is never negative.
C5_DistanceIsReference ==
    (call = "dep_distance" /\ pc = "done") => (result = RefDistance /\ result >= 0)

\* A token whose head follows it in the same sentence.
C5_Witness ==
    /\ call = "dep_distance" /\ pc = "done"
    /\ HeadOf(token) > token
    /\ SpanIndex(token) = SpanIndex(HeadOf(token))
    /\ result = HeadOf(token) - token

\* C6: the mapping has one entry per AOI token; against an empty annotation
\* list every entry of the returned mapping is None, and an empty AOI list
\* gives the empty mapping.
C6_OneEntryPerAoiToken ==
    call = "align" =>
        /\ Len(mapping) = Len(aoi_tokens)
        /\ (pc = "done" /\ doc_tokens = <<>>) => \A p \in AoiPositions : ~Matched(p)
        /\ aoi_tokens = <<>> => mapping = <<>>

\* Two AOI tokens, one of them punctuation, against the empty annotation list.
C6_Witness ==
    /\ call = "align" /\ pc = "done"
    /\ doc_tokens = <<>>
    /\ Len(aoi_tokens) = 2
    /\ normalize_token_pass1(aoi_tokens[1]) = <<>> /\ strip(aoi_tokens[1]) # <<>>
    /\ normalize_token_pass1(aoi_tokens[2]) # <<>>
    /\ mapping = <<None, None>>

\* C7: every call of align_aoi_to_spacy_windowed and of dep_depth reaches its
\* return, whatever the sequences and the head relation.
C7_Terminates == <>(pc = "done")

\* dep_depth has returned on a head relation with a cycle and no root above
\* the token.
C7_Witness ==
    /\ call = "dep_depth" /\ pc = "done"
    /\ ~ReachesRoot(token, Len(heads))
    /\ \A t \in DocPositions : Contains(token_sent, t)
    /\ result = DepthCap + 1

\* No annotation token at or after position c has the raw text of the AOI token.
NoLiteralFrom(c) == \A p \in c..(N - 1) : strip(doc_tokens[p + 1]) # raw

\* C8: while a punctuation-only AOI token has no literal match at or after the
\* cursor, the cursor keeps its value and the token stays unmatched.
C8_MissKeepsCursor ==
    [][ (call = "align" /\ pc = "punct" /\ NoLiteralFrom(j)) =>
            (j' = j /\ mapping' = mapping) ]_vars

\* The head steps from cur that stay inside the token's sentence span.
RECURSIVE StepsInside(_, _)
StepsInside(cur, fuel) ==
    IF fuel = 0 \/ HeadOf(cur) = cur \/ ~Contains(token_sent, HeadOf(cur)) THEN 0
    ELSE 1 + StepsInside(HeadOf(cur), fuel - 1)

\* Following heads from cur lands outside the token's sentence span.
RECURSIVE LeavesSpan(_, _)
LeavesSpan(cur, fuel) ==
    /\ fuel > 0
    /\ HeadOf(cur) # cur
    /\ \/ ~Contains(token_sent, HeadOf(cur))
       \/ LeavesSpan(HeadOf(cur), fuel - 1)

\* C9: when the walk of dep_depth lands outside the token's sentence span, the
\* returned depth is the number of head steps that stayed inside the span.
C9_OutsideStepNotCounted ==
    (call = "dep_depth" /\ pc = "done" /\ LeavesSpan(token, Len(heads)))
        => result = StepsInside(token, Len(heads))

\* C10: the annotation token a window match maps to has a non-empty normalized
\* form under the pass that matched.
C10_MappedTokenContributes ==
    [][ WindowMatchStep =>
            IF window_norm_pass1 = tgt_pass1
            THEN normalize_token_pass1(doc_tokens[mapping'[i + 1] + 1]) # <<>>
            ELSE normalize_token_pass2(doc_tokens[mapping'[i + 1] + 1]) # <<>> ]_vars

====
